---- MODULE Spec2Model ----
(***************************************************************************)
(* tesc: ANSI escape based console text stylizer.                          *)
(*                                                                         *)
(* Two releases of the header are modelled side by side:                   *)
(*   ver = "hpp" : tesc.hpp 2.0.1, the state-carrying release; the colour  *)
(*                 and the style live in static cells, bright saturates.   *)
(*   ver = "h"   : tesc.h 0.1.0, every manipulator object carries its own  *)
(*                 fields, bright throws invalid_argument.                 *)
(* A byte string is a sequence of one-character strings; the escape        *)
(* character 0x1B is written "ESC".                                        *)
(***************************************************************************)
EXTENDS Integers, Sequences, FiniteSets, TLC

\* ---- bounds -------------------------------------------------------------
\* number of base foreground colours handed to the manipulators
NumColors == 1
\* number of named manipulator objects alive at the same time
MaxObjs == 1

\* ---- enumerations ---------------------------------------------------------
face_none == 0
face_black == 30
face_white == face_black + 7
back_none == 0
back_black == 40
back_white == back_black + 7
style_normal == 0
style_bold == 1
style_italic == 2
style_underline == 4

\* uint8_t is the underlying type of the three enumerations
U8 == 256

FaceEnum == {face_none} \cup (face_black .. face_white)
BackEnum == {back_none} \cup (back_black .. back_white)
StyleEnum == {style_normal, style_bold, style_italic, style_underline}

\* ---- integer helpers -----------------------------------------------------
RECURSIVE BitAnd(_, _)
BitAnd(a, b) ==
    IF a = 0 \/ b = 0 THEN 0
    ELSE (a % 2) * (b % 2) + 2 * BitAnd(a \div 2, b \div 2)

RECURSIVE BitOr(_, _)
BitOr(a, b) ==
    IF a = 0 THEN b
    ELSE IF b = 0 THEN a
    ELSE (IF a % 2 = 1 \/ b % 2 = 1 THEN 1 ELSE 0) + 2 * BitOr(a \div 2, b \div 2)

Digits == <<"0", "1", "2", "3", "4", "5", "6", "7", "8", "9">>

\* os << int : decimal formatting of a non-negative int
RECURSIVE ToDec(_)
ToDec(n) ==
    IF n < 10 THEN <<Digits[n + 1]>>
    ELSE ToDec(n \div 10) \o <<Digits[(n % 10) + 1]>>

\* ---- parameter modifiers, tesc.hpp ---------------------------------------
\* operator | (face, back) -> std::pair<face, back>
face_or_back(clr_1, clr_2) == <<clr_1, clr_2>>

\* faulty variant of back | face: the arguments are not swapped
back_or_face_m(clr_1, clr_2) == face_or_back(clr_1, clr_2)

\* operator | (back, face) -> std::pair<face, back>
back_or_face(clr_1, clr_2) == face_or_back(clr_2, clr_1)

\* operator | (style, style)
style_or_style(f_1, f_2) == BitOr(f_1, f_2) % U8

\* bright (face), saturating
bright_face(clr) ==
    IF clr >= 90 THEN [val |-> <<clr>>, err |-> "none"]
    ELSE [val |-> <<(60 + clr) % U8>>, err |-> "none"]

\* bright (back), saturating
bright_back(clr) ==
    IF clr >= 100 THEN [val |-> <<clr>>, err |-> "none"]
    ELSE [val |-> <<(60 + clr) % U8>>, err |-> "none"]

\* ---- parameter modifiers, tesc.h ------------------------------------------
\* operator | (face, back) -> uint16_t
h_face_or_back(clr_1, clr_2) == BitOr(clr_1 * 256, clr_2 % U8) % 65536

\* operator | (back, face) -> uint16_t
h_back_or_face(clr_1, clr_2) == h_face_or_back(clr_2, clr_1)

\* bright (face), throwing
h_bright_face(clr) ==
    IF clr >= 90 THEN [val |-> <<>>, err |-> "invalid_argument"]
    ELSE [val |-> <<(60 + clr) % U8>>, err |-> "none"]

\* faulty variant of the throwing bright (back): the bound is off by one
h_bright_back_m(clr) ==
    IF clr > 100 THEN [val |-> <<>>, err |-> "invalid_argument"]
    ELSE [val |-> <<(60 + clr) % U8>>, err |-> "none"]

\* bright (back), throwing
h_bright_back(clr) ==
    IF clr >= 100 THEN [val |-> <<>>, err |-> "invalid_argument"]
    ELSE [val |-> <<(60 + clr) % U8>>, err |-> "none"]

\* ---- stream insertion, tesc.hpp -------------------------------------------
\* faulty variant of os << color: the separator follows every foreground
color_insert_m(clr_1, clr_2) ==
    <<"ESC", "[">>
    \o (IF clr_1 # 0 THEN ToDec(clr_1) \o <<";">> ELSE <<>>)
    \o (IF clr_2 # 0 THEN ToDec(clr_2) ELSE <<>>)
    \o <<"m">>

\* operator << (ostream, color): clr_1 = get_face(), clr_2 = get_back()
color_insert(clr_1, clr_2) ==
    <<"ESC", "[">>
    \o (IF clr_1 # 0
        THEN ToDec(clr_1) \o (IF clr_2 # 0 THEN <<";">> ELSE <<>>)
        ELSE <<>>)
    \o (IF clr_2 # 0 THEN ToDec(clr_2) ELSE <<>>)
    \o <<"m">>

\* font::test_style, st_1 = get_style()
test_style(st_1, st_2) ==
    IF st_1 = 0 /\ st_2 = 0 THEN TRUE
    ELSE BitAnd(st_1, st_2) = st_2

\* faulty variant of the sort: the chained re-check is missing
sort_modif_m(m) ==
    LET a == IF m[1] > m[2] THEN <<m[2], m[1], m[3]>> ELSE m
    IN  IF a[2] > a[3] THEN <<a[1], a[3], a[2]>> ELSE a

\* the three compare-and-swaps on modif[]
sort_modif(m) ==
    LET a == IF m[1] > m[2] THEN <<m[2], m[1], m[3]>> ELSE m
    IN  IF a[2] > a[3]
        THEN LET s == <<a[1], a[3], a[2]>>
             IN  IF s[1] > s[2] THEN <<s[2], s[1], s[3]>> ELSE s
        ELSE a

\* operator << (ostream, font)
font_insert(st) ==
    LET modif == sort_modif(<<IF test_style(st, style_bold) THEN 1 ELSE 22,
                              IF test_style(st, style_italic) THEN 3 ELSE 23,
                              IF test_style(st, style_underline) THEN 4 ELSE 24>>)
    IN  <<"ESC", "[">> \o ToDec(modif[1]) \o <<";">> \o ToDec(modif[2])
        \o <<";">> \o ToDec(modif[3]) \o <<"m">>

\* reset (ostream)
reset_insert == <<"ESC", "[", "0", "m">>

\* ---- stream insertion, tesc.h ---------------------------------------------
\* operator << (ostream, color): clr_1 = _color >> 8, clr_2 = (uint8_t)_color
h_color_insert(color) ==
    LET clr_1 == color \div 256
        clr_2 == color % 256
    IN  <<"ESC", "[">>
        \o (IF clr_1 # 0
            THEN ToDec(clr_1) \o (IF clr_2 # 0 THEN <<";">> ELSE <<>>)
            ELSE <<>>)
        \o (IF clr_2 # 0 THEN ToDec(clr_2) ELSE <<>>)
        \o <<"m">>

\* font::_test
h_test(style, st) == BitAnd(style, st) # 0

\* the three compare-and-swaps on modif[]
h_sort_modif(m) ==
    LET a == IF m[1] > m[2] THEN <<m[2], m[1], m[3]>> ELSE m
    IN  IF a[2] > a[3]
        THEN LET s == <<a[1], a[3], a[2]>>
             IN  IF s[1] > s[2] THEN <<s[2], s[1], s[3]>> ELSE s
        ELSE a

\* operator << (ostream, font)
h_font_insert(style) ==
    LET modif == h_sort_modif(<<IF h_test(style, style_bold) THEN 1 ELSE 22,
                                IF h_test(style, style_italic) THEN 3 ELSE 23,
                                IF h_test(style, style_underline) THEN 4 ELSE 24>>)
    IN  <<"ESC", "[">> \o ToDec(modif[1]) \o <<";">> \o ToDec(modif[2])
        \o <<";">> \o ToDec(modif[3]) \o <<"m">>

\* reset (ostream)
h_reset_insert == <<"ESC", "[", "0", "m">>

\* ---- state ------------------------------------------------------------------
VARIABLES
    ver,         \* which header the program includes: "hpp" or "h"
    _fg_color,   \* color::_fg_color (tesc.hpp)
    _bg_color,   \* color::_bg_color (tesc.hpp)
    _style,      \* font::_style (tesc.hpp)
    objs,        \* the named manipulator objects; color/style are the tesc.h fields
    out,         \* the bytes the last operation wrote to the stream
    ret,         \* the value the last operation returned: <<>>, <<c>> or <<f, b>>
    err,         \* the exception the last operation threw, or "none"
    last         \* the last operation: its name, the object it wrote, its arguments

vars == <<ver, _fg_color, _bg_color, _style, objs, out, ret, err, last>>

NoObj == [kind |-> "none", ctor |-> "none", arg |-> <<>>, color |-> 0, style |-> 0]

\* arguments handed to the manipulators: none, the first base foregrounds and
\* bright white (two digits); none and bright white background (three digits)
FaceArgs == {face_none} \cup {c \in FaceEnum : face_black <= c /\ c < face_black + NumColors}
            \cup {bright_face(face_white).val[1]}
BackArgs == {back_none} \cup {bright_back(back_white).val[1]}
\* every style the joiner builds from the enumeration
StyleArgs == {style_or_style(style_or_style(a, b), c) : a \in StyleEnum, b \in StyleEnum, c \in StyleEnum}

Slots == 0 .. MaxObjs
\* slot 0 is a temporary that is not kept
Free(i) == IF i = 0 THEN TRUE ELSE objs[i].kind = "none"
Store(i, o) == IF i = 0 THEN objs ELSE [objs EXCEPT ![i] = o]
Op(name, i, a, ch) == [op |-> name, who |-> i, arg |-> a, chained |-> ch]

\* the colour pair and the style an object was constructed with
CtorCodes(o) ==
    CASE o.ctor = "pair" -> <<o.arg[1], o.arg[2]>>
      [] o.ctor = "face" -> <<o.arg[1], back_none>>
      [] o.ctor = "back" -> <<face_none, o.arg[1]>>
      [] OTHER -> <<face_none, back_none>>
CtorStyle(o) == IF o.ctor = "style" THEN o.arg[1] ELSE style_normal

Init ==
    /\ ver \in {"hpp", "h"}
    /\ _fg_color = face_none
    /\ _bg_color = back_none
    /\ _style = style_normal
    /\ objs = [i \in 1 .. MaxObjs |-> NoObj]
    /\ out = <<>>
    /\ ret = <<>>
    /\ err = "none"
    /\ last = Op("init", 0, <<>>, FALSE)

\* ---- manipulators, tesc.hpp -------------------------------------------------
\* color::color (std::pair<face, back> const&), the pair built by either joiner
color_pair(i, f, b) ==
    /\ ver = "hpp"
    /\ Free(i)
    /\ \E clr \in {face_or_back(f, b), back_or_face(b, f)} :
           /\ _fg_color' = clr[1]
           /\ _bg_color' = clr[2]
    /\ objs' = Store(i, [kind |-> "color", ctor |-> "pair", arg |-> <<f, b>>, color |-> 0, style |-> 0])
    /\ out' = <<>> /\ ret' = <<>> /\ err' = "none"
    /\ last' = Op("color_pair", 0, <<f, b>>, FALSE)
    /\ UNCHANGED <<ver, _style>>

\* faulty variant of color (face): the background cell is cleared
color_face_m(i, clr) ==
    /\ ver = "hpp"
    /\ Free(i)
    /\ _fg_color' = clr
    /\ _bg_color' = back_none
    /\ objs' = Store(i, [kind |-> "color", ctor |-> "face", arg |-> <<clr>>, color |-> 0, style |-> 0])
    /\ out' = <<>> /\ ret' = <<>> /\ err' = "none"
    /\ last' = Op("color_face", 0, <<clr>>, FALSE)
    /\ UNCHANGED <<ver, _style>>

\* color::color (face)
color_face(i, clr) ==
    /\ ver = "hpp"
    /\ Free(i)
    /\ _fg_color' = clr
    /\ objs' = Store(i, [kind |-> "color", ctor |-> "face", arg |-> <<clr>>, color |-> 0, style |-> 0])
    /\ out' = <<>> /\ ret' = <<>> /\ err' = "none"
    /\ last' = Op("color_face", 0, <<clr>>, FALSE)
    /\ UNCHANGED <<ver, _bg_color, _style>>

\* color::color (back)
color_back(i, clr) ==
    /\ ver = "hpp"
    /\ Free(i)
    /\ _bg_color' = clr
    /\ objs' = Store(i, [kind |-> "color", ctor |-> "back", arg |-> <<clr>>, color |-> 0, style |-> 0])
    /\ out' = <<>> /\ ret' = <<>> /\ err' = "none"
    /\ last' = Op("color_back", 0, <<clr>>, FALSE)
    /\ UNCHANGED <<ver, _fg_color, _style>>

\* font::font () = default
font_default(i) ==
    /\ ver = "hpp"
    /\ Free(i)
    /\ objs' = Store(i, [kind |-> "font", ctor |-> "default", arg |-> <<>>, color |-> 0, style |-> 0])
    /\ out' = <<>> /\ ret' = <<>> /\ err' = "none"
    /\ last' = Op("font_default", 0, <<>>, FALSE)
    /\ UNCHANGED <<ver, _fg_color, _bg_color, _style>>

\* font::font (style)
font_style(i, st) ==
    /\ ver = "hpp"
    /\ Free(i)
    /\ _style' = st
    /\ objs' = Store(i, [kind |-> "font", ctor |-> "style", arg |-> <<st>>, color |-> 0, style |-> 0])
    /\ out' = <<>> /\ ret' = <<>> /\ err' = "none"
    /\ last' = Op("font_style", 0, <<st>>, FALSE)
    /\ UNCHANGED <<ver, _fg_color, _bg_color>>

\* faulty variant of os << color: the object's own arguments are written
write_color_m(i) ==
    /\ ver = "hpp"
    /\ i # 0
    /\ objs[i].kind = "color"
    /\ out' = color_insert(CtorCodes(objs[i])[1], CtorCodes(objs[i])[2])
    /\ ret' = <<>> /\ err' = "none"
    /\ last' = Op("write", i, <<>>, FALSE)
    /\ UNCHANGED <<ver, _fg_color, _bg_color, _style, objs>>

\* os << decorator, decorator a color
write_color(i) ==
    /\ ver = "hpp"
    /\ i # 0
    /\ objs[i].kind = "color"
    /\ out' = color_insert(_fg_color, _bg_color)
    /\ ret' = <<>> /\ err' = "none"
    /\ last' = Op("write", i, <<>>, FALSE)
    /\ UNCHANGED <<ver, _fg_color, _bg_color, _style, objs>>

\* os << styler, styler a font
write_font(i) ==
    /\ ver = "hpp"
    /\ i # 0
    /\ objs[i].kind = "font"
    /\ out' = font_insert(_style)
    /\ ret' = <<>> /\ err' = "none"
    /\ last' = Op("write", i, <<>>, FALSE)
    /\ UNCHANGED <<ver, _fg_color, _bg_color, _style, objs>>

\* faulty variant of reset: the cells are cleared as well
reset_m ==
    /\ ver = "hpp"
    /\ out' = reset_insert
    /\ ret' = <<>> /\ err' = "none"
    /\ last' = Op("reset", 0, <<>>, FALSE)
    /\ _fg_color' = face_none
    /\ _bg_color' = back_none
    /\ _style' = style_normal
    /\ UNCHANGED <<ver, objs>>

\* os << reset
reset ==
    /\ ver = "hpp"
    /\ out' = reset_insert
    /\ ret' = <<>> /\ err' = "none"
    /\ last' = Op("reset", 0, <<>>, FALSE)
    /\ UNCHANGED <<ver, _fg_color, _bg_color, _style, objs>>

\* a named manipulator goes out of scope (trivial destructor)
destroy(i) ==
    /\ ver = "hpp"
    /\ i # 0
    /\ objs[i].kind # "none"
    /\ objs' = [objs EXCEPT ![i] = NoObj]
    /\ out' = <<>> /\ ret' = <<>> /\ err' = "none"
    /\ last' = Op("destroy", 0, <<>>, FALSE)
    /\ UNCHANGED <<ver, _fg_color, _bg_color, _style>>

\* ---- manipulators, tesc.h ---------------------------------------------------
\* color::color (uint16_t), the code built by either joiner
h_color_pair(i, f, b) ==
    /\ ver = "h"
    /\ Free(i)
    /\ \E clr \in {h_face_or_back(f, b), h_back_or_face(b, f)} :
           objs' = Store(i, [kind |-> "color", ctor |-> "pair", arg |-> <<f, b>>, color |-> clr, style |-> 0])
    /\ out' = <<>> /\ ret' = <<>> /\ err' = "none"
    /\ last' = Op("color_pair", 0, <<f, b>>, FALSE)
    /\ UNCHANGED <<ver, _fg_color, _bg_color, _style>>

\* color::color (face)
h_color_face(i, clr) ==
    /\ ver = "h"
    /\ Free(i)
    /\ objs' = Store(i, [kind |-> "color", ctor |-> "face", arg |-> <<clr>>, color |-> clr % U8, style |-> 0])
    /\ out' = <<>> /\ ret' = <<>> /\ err' = "none"
    /\ last' = Op("color_face", 0, <<clr>>, FALSE)
    /\ UNCHANGED <<ver, _fg_color, _bg_color, _style>>

\* color::color (back)
h_color_back(i, clr) ==
    /\ ver = "h"
    /\ Free(i)
    /\ objs' = Store(i, [kind |-> "color", ctor |-> "back", arg |-> <<clr>>, color |-> clr % U8, style |-> 0])
    /\ out' = <<>> /\ ret' = <<>> /\ err' = "none"
    /\ last' = Op("color_back", 0, <<clr>>, FALSE)
    /\ UNCHANGED <<ver, _fg_color, _bg_color, _style>>

\* font::font () = default, with style _style = style::normal
h_font_default(i) ==
    /\ ver = "h"
    /\ Free(i)
    /\ objs' = Store(i, [kind |-> "font", ctor |-> "default", arg |-> <<>>, color |-> 0, style |-> style_normal])
    /\ out' = <<>> /\ ret' = <<>> /\ err' = "none"
    /\ last' = Op("font_default", 0, <<>>, FALSE)
    /\ UNCHANGED <<ver, _fg_color, _bg_color, _style>>

\* font::font (style)
h_font_style(i, st) ==
    /\ ver = "h"
    /\ Free(i)
    /\ objs' = Store(i, [kind |-> "font", ctor |-> "style", arg |-> <<st>>, color |-> 0, style |-> st])
    /\ out' = <<>> /\ ret' = <<>> /\ err' = "none"
    /\ last' = Op("font_style", 0, <<st>>, FALSE)
    /\ UNCHANGED <<ver, _fg_color, _bg_color, _style>>

\* os << decorator, decorator a color
h_write_color(i) ==
    /\ ver = "h"
    /\ i # 0
    /\ objs[i].kind = "color"
    /\ out' = h_color_insert(objs[i].color)
    /\ ret' = <<>> /\ err' = "none"
    /\ last' = Op("write", i, <<>>, FALSE)
    /\ UNCHANGED <<ver, _fg_color, _bg_color, _style, objs>>

\* os << styler, styler a font
h_write_font(i) ==
    /\ ver = "h"
    /\ i # 0
    /\ objs[i].kind = "font"
    /\ out' = h_font_insert(objs[i].style)
    /\ ret' = <<>> /\ err' = "none"
    /\ last' = Op("write", i, <<>>, FALSE)
    /\ UNCHANGED <<ver, _fg_color, _bg_color, _style, objs>>

\* os << reset
h_reset ==
    /\ ver = "h"
    /\ out' = h_reset_insert
    /\ ret' = <<>> /\ err' = "none"
    /\ last' = Op("reset", 0, <<>>, FALSE)
    /\ UNCHANGED <<ver, _fg_color, _bg_color, _style, objs>>

\* a named manipulator goes out of scope (trivial destructor)
h_destroy(i) ==
    /\ ver = "h"
    /\ i # 0
    /\ objs[i].kind # "none"
    /\ objs' = [objs EXCEPT ![i] = NoObj]
    /\ out' = <<>> /\ ret' = <<>> /\ err' = "none"
    /\ last' = Op("destroy", 0, <<>>, FALSE)
    /\ UNCHANGED <<ver, _fg_color, _bg_color, _style>>

\* ---- calls of the parameter modifiers -------------------------------------
\* the value a call may take from the previous call of the same function
Chain(name) == IF last.op = name /\ err = "none" /\ Len(ret) = 1 THEN {ret[1]} ELSE {}

\* bright (face) of tesc.hpp, on an enumerator or on its own result
call_bright_face(clr, chained) ==
    /\ ver = "hpp"
    /\ clr \in (IF chained THEN Chain("bright_face") ELSE FaceEnum)
    /\ ret' = bright_face(clr).val
    /\ err' = bright_face(clr).err
    /\ out' = <<>>
    /\ last' = Op("bright_face", 0, <<clr>>, chained)
    /\ UNCHANGED <<ver, _fg_color, _bg_color, _style, objs>>

\* bright (back) of tesc.hpp, on an enumerator or on its own result
call_bright_back(clr, chained) ==
    /\ ver = "hpp"
    /\ clr \in (IF chained THEN Chain("bright_back") ELSE BackEnum)
    /\ ret' = bright_back(clr).val
    /\ err' = bright_back(clr).err
    /\ out' = <<>>
    /\ last' = Op("bright_back", 0, <<clr>>, chained)
    /\ UNCHANGED <<ver, _fg_color, _bg_color, _style, objs>>

\* face | back of tesc.hpp
call_face_or_back(f, b) ==
    /\ ver = "hpp"
    /\ ret' = face_or_back(f, b)
    /\ err' = "none"
    /\ out' = <<>>
    /\ last' = Op("face_or_back", 0, <<f, b>>, FALSE)
    /\ UNCHANGED <<ver, _fg_color, _bg_color, _style, objs>>

\* back | face of tesc.hpp
call_back_or_face(b, f) ==
    /\ ver = "hpp"
    /\ ret' = back_or_face(b, f)
    /\ err' = "none"
    /\ out' = <<>>
    /\ last' = Op("back_or_face", 0, <<f, b>>, FALSE)
    /\ UNCHANGED <<ver, _fg_color, _bg_color, _style, objs>>

\* bright (face) of tesc.h, on an enumerator or on its own result
h_call_bright_face(clr, chained) ==
    /\ ver = "h"
    /\ clr \in (IF chained THEN Chain("bright_face") ELSE FaceEnum)
    /\ ret' = h_bright_face(clr).val
    /\ err' = h_bright_face(clr).err
    /\ out' = <<>>
    /\ last' = Op("bright_face", 0, <<clr>>, chained)
    /\ UNCHANGED <<ver, _fg_color, _bg_color, _style, objs>>

\* bright (back) of tesc.h, on an enumerator or on its own result
h_call_bright_back(clr, chained) ==
    /\ ver = "h"
    /\ clr \in (IF chained THEN Chain("bright_back") ELSE BackEnum)
    /\ ret' = h_bright_back(clr).val
    /\ err' = h_bright_back(clr).err
    /\ out' = <<>>
    /\ last' = Op("bright_back", 0, <<clr>>, chained)
    /\ UNCHANGED <<ver, _fg_color, _bg_color, _style, objs>>

\* face | back of tesc.h
h_call_face_or_back(f, b) ==
    /\ ver = "h"
    /\ ret' = <<h_face_or_back(f, b)>>
    /\ err' = "none"
    /\ out' = <<>>
    /\ last' = Op("face_or_back", 0, <<f, b>>, FALSE)
    /\ UNCHANGED <<ver, _fg_color, _bg_color, _style, objs>>

\* back | face of tesc.h
h_call_back_or_face(b, f) ==
    /\ ver = "h"
    /\ ret' = <<h_back_or_face(b, f)>>
    /\ err' = "none"
    /\ out' = <<>>
    /\ last' = Op("back_or_face", 0, <<f, b>>, FALSE)
    /\ UNCHANGED <<ver, _fg_color, _bg_color, _style, objs>>

\* ---- specifications ---------------------------------------------------------
\* the manipulators of tesc.hpp
NextHpp ==
    \/ \E i \in Slots, f \in FaceArgs, b \in BackArgs : color_pair(i, f, b)
    \/ \E i \in Slots, f \in FaceArgs : color_face(i, f)
    \/ \E i \in Slots, b \in BackArgs : color_back(i, b)
    \/ \E i \in Slots : font_default(i)
    \/ \E i \in Slots, st \in StyleArgs : font_style(i, st)
    \/ \E i \in Slots : write_color(i)
    \/ \E i \in Slots : write_font(i)
    \/ reset
    \/ \E i \in Slots : destroy(i)

\* the manipulators of tesc.h
NextH ==
    \/ \E i \in Slots, f \in FaceArgs, b \in BackArgs : h_color_pair(i, f, b)
    \/ \E i \in Slots, f \in FaceArgs : h_color_face(i, f)
    \/ \E i \in Slots, b \in BackArgs : h_color_back(i, b)
    \/ \E i \in Slots : h_font_default(i)
    \/ \E i \in Slots, st \in StyleArgs : h_font_style(i, st)
    \/ \E i \in Slots : h_write_color(i)
    \/ \E i \in Slots : h_write_font(i)
    \/ h_reset
    \/ \E i \in Slots : h_destroy(i)

\* the parameter modifiers of tesc.hpp
NextFnHpp ==
    \/ \E ch \in BOOLEAN : \E c \in (IF ch THEN Chain("bright_face") ELSE FaceEnum) : call_bright_face(c, ch)
    \/ \E ch \in BOOLEAN : \E c \in (IF ch THEN Chain("bright_back") ELSE BackEnum) : call_bright_back(c, ch)
    \/ \E f \in FaceEnum, b \in BackEnum : call_face_or_back(f, b)
    \/ \E f \in FaceEnum, b \in BackEnum : call_back_or_face(b, f)

\* the parameter modifiers of tesc.h
NextFnH ==
    \/ \E ch \in BOOLEAN : \E c \in (IF ch THEN Chain("bright_face") ELSE FaceEnum) : h_call_bright_face(c, ch)
    \/ \E ch \in BOOLEAN : \E c \in (IF ch THEN Chain("bright_back") ELSE BackEnum) : h_call_bright_back(c, ch)
    \/ \E f \in FaceEnum, b \in BackEnum : h_call_face_or_back(f, b)
    \/ \E f \in FaceEnum, b \in BackEnum : h_call_back_or_face(b, f)

\* the parameter modifiers of tesc.h, the joiners on the manipulators' arguments
NextFnArgsH ==
    \/ \E ch \in BOOLEAN : \E c \in (IF ch THEN Chain("bright_face") ELSE FaceEnum) : h_call_bright_face(c, ch)
    \/ \E ch \in BOOLEAN : \E c \in (IF ch THEN Chain("bright_back") ELSE BackEnum) : h_call_bright_back(c, ch)
    \/ \E f \in FaceArgs, b \in BackArgs : h_call_face_or_back(f, b)
    \/ \E f \in FaceArgs, b \in BackArgs : h_call_back_or_face(b, f)

Next == NextHpp \/ NextH
NextFn == NextFnHpp \/ NextFnH
NextLibH == NextH \/ NextFnArgsH

InitH == Init /\ ver = "h"

\* programs that construct and write manipulators, either release
Spec == Init /\ [][Next]_vars
\* programs that call the parameter modifiers, either release
SpecFn == Init /\ [][NextFn]_vars
\* programs that use the whole of tesc.h
SpecH == InitH /\ [][NextLibH]_vars

\* ---- reading an emitted sequence ------------------------------------------
DigitVal(ch) == CHOOSE d \in 0 .. 9 : Digits[d + 1] = ch

RECURSIVE DecVal(_)
\* an empty parameter counts as 0, as a terminal reads it
DecVal(ds) ==
    IF ds = <<>> THEN 0
    ELSE DecVal(SubSeq(ds, 1, Len(ds) - 1)) * 10 + DigitVal(ds[Len(ds)])

RECURSIVE Split(_, _, _)
Split(s, cur, acc) ==
    IF s = <<>> THEN Append(acc, cur)
    ELSE IF Head(s) = ";" THEN Split(Tail(s), <<>>, Append(acc, cur))
    ELSE Split(Tail(s), Append(cur, Head(s)), acc)

\* ESC [ ... m with only digits and separators in between
IsSgr(bytes) ==
    /\ Len(bytes) >= 3
    /\ bytes[1] = "ESC"
    /\ bytes[2] = "["
    /\ bytes[Len(bytes)] = "m"
    /\ \A k \in 3 .. (Len(bytes) - 1) : bytes[k] = ";" \/ \E d \in 1 .. 10 : Digits[d] = bytes[k]

\* the decimal parameters of a sequence, in order
Params(bytes) ==
    LET body == SubSeq(bytes, 3, Len(bytes) - 1)
        segs == Split(body, <<>>, <<>>)
    IN  IF body = <<>> THEN <<>> ELSE [k \in 1 .. Len(segs) |-> DecVal(segs[k])]

Range(f) == {f[k] : k \in DOMAIN f}
NonZero(c) == c # 0
Has(st, flag) == (st \div flag) % 2 = 1

\* the colour pair in force when object i is written
CurrentCodes(i) == IF ver = "hpp" THEN <<_fg_color, _bg_color>> ELSE CtorCodes(objs[i])
\* the style in force when object i is written
CurrentStyle(i) == IF ver = "hpp" THEN _style ELSE CtorStyle(objs[i])
\* the bytes writing object i would emit now
WouldWrite(i) ==
    IF objs[i].kind = "color"
    THEN (IF ver = "hpp" THEN color_insert(_fg_color, _bg_color) ELSE h_color_insert(objs[i].color))
    ELSE IF objs[i].kind = "font"
    THEN (IF ver = "hpp" THEN font_insert(_style) ELSE h_font_insert(objs[i].style))
    ELSE <<>>

\* the bytes writing object i would emit after the step
WouldWriteNext(i) ==
    IF objs'[i].kind = "color"
    THEN (IF ver' = "hpp" THEN color_insert(_fg_color', _bg_color') ELSE h_color_insert(objs'[i].color))
    ELSE IF objs'[i].kind = "font"
    THEN (IF ver' = "hpp" THEN font_insert(_style') ELSE h_font_insert(objs'[i].style))
    ELSE <<>>

WroteColor == last.op = "write" /\ objs[last.who].kind = "color"
WroteFont == last.op = "write" /\ objs[last.who].kind = "font"

\* ---- C1 ---------------------------------------------------------------------
\* C1: writing a color manipulator emits ESC[, the foreground code in decimal
\* only if it is non-zero, ';' only if both codes are non-zero, the background
\* code only if it is non-zero, then m; a zero code is never written.
ColorSequence(fg, bg) ==
    <<"ESC", "[">>
    \o (IF fg # 0 THEN ToDec(fg) ELSE <<>>)
    \o (IF fg # 0 /\ bg # 0 THEN <<";">> ELSE <<>>)
    \o (IF bg # 0 THEN ToDec(bg) ELSE <<>>)
    \o <<"m">>

C1_ColorEmission ==
    WroteColor =>
        LET c == CurrentCodes(last.who)
        IN  /\ out = ColorSequence(c[1], c[2])
            /\ IsSgr(out)
            /\ Params(out) = SelectSeq(c, NonZero)
            /\ 0 \notin Range(Params(out))
            /\ color_insert(face_none, back_none) = <<"ESC", "[", "m">>
            /\ color_insert(31, back_none) = <<"ESC", "[", "3", "1", "m">>
            /\ color_insert(31, 42) = <<"ESC", "[", "3", "1", ";", "4", "2", "m">>
            /\ color_insert(face_none, 42) = <<"ESC", "[", "4", "2", "m">>
            /\ h_color_insert(h_face_or_back(31, 42)) = <<"ESC", "[", "3", "1", ";", "4", "2", "m">>

C1_Witness ==
    /\ ver = "hpp"
    /\ WroteColor
    /\ _fg_color # 0
    /\ _bg_color # 0
    /\ Len(Params(out)) = 2

\* ---- C2 ---------------------------------------------------------------------
\* C2: writing a font manipulator emits exactly three semicolon-separated codes
\* between ESC[ and m, one per attribute (1 or 22, 3 or 23, 4 or 24), in
\* strictly ascending order, for each of the 8 style subsets.
StyleCodes(st) ==
    {IF Has(st, style_bold) THEN 1 ELSE 22,
     IF Has(st, style_italic) THEN 3 ELSE 23,
     IF Has(st, style_underline) THEN 4 ELSE 24}

C2_FontEmission ==
    /\ WroteFont =>
         LET p == Params(out)
         IN  /\ IsSgr(out)
             /\ Len(p) = 3
             /\ p[1] < p[2]
             /\ p[2] < p[3]
             /\ Range(p) = StyleCodes(CurrentStyle(last.who))
             /\ out = <<"ESC", "[">> \o ToDec(p[1]) \o <<";">> \o ToDec(p[2])
                      \o <<";">> \o ToDec(p[3]) \o <<"m">>
    /\ font_insert(style_normal) = <<"ESC", "[", "2", "2", ";", "2", "3", ";", "2", "4", "m">>
    /\ font_insert(style_or_style(style_bold, style_underline))
         = <<"ESC", "[", "1", ";", "4", ";", "2", "3", "m">>

C2_Witness ==
    /\ WroteFont
    /\ ver = "hpp"
    /\ _style = style_underline
    /\ out = <<"ESC", "[", "4", ";", "2", "2", ";", "2", "3", "m">>

\* ---- C3 ---------------------------------------------------------------------
\* C3: in tesc.hpp, color(face) sets the foreground cell and keeps the
\* background cell, color(back) sets the background cell and keeps the
\* foreground cell, color(pair) sets both; none touches the style cell.
C3_ColorCtorFrame ==
    [][(ver = "hpp") =>
         /\ (last'.op = "color_face" =>
               /\ _fg_color' = last'.arg[1]
               /\ _bg_color' = _bg_color
               /\ _style' = _style)
         /\ (last'.op = "color_back" =>
               /\ _bg_color' = last'.arg[1]
               /\ _fg_color' = _fg_color
               /\ _style' = _style)
         /\ (last'.op = "color_pair" =>
               /\ _fg_color' = last'.arg[1]
               /\ _bg_color' = last'.arg[2]
               /\ _style' = _style)]_vars

C3_Witness ==
    /\ ver = "hpp"
    /\ last.op = "color_face"
    /\ _fg_color = last.arg[1]
    /\ _fg_color # face_none
    /\ _bg_color # back_none
    /\ _style # style_normal

\* ---- C4 ---------------------------------------------------------------------
\* C4: a font manipulator constructed without arguments has style normal:
\* written after any earlier constructions, it emits ESC[22;23;24m.
C4_DefaultFontIsNormal ==
    (WroteFont /\ objs[last.who].ctor = "default") =>
        out = <<"ESC", "[", "2", "2", ";", "2", "3", ";", "2", "4", "m">>

\* ---- C5 ---------------------------------------------------------------------
\* C5: reset emits exactly the 4 bytes ESC[0m and leaves the cells and every
\* object unchanged, so each manipulator would emit the same bytes as before.
C5_ResetFrame ==
    [][last'.op = "reset" =>
         /\ out' = <<"ESC", "[", "0", "m">>
         /\ Len(out') = 4
         /\ _fg_color' = _fg_color
         /\ _bg_color' = _bg_color
         /\ _style' = _style
         /\ objs' = objs
         /\ \A i \in 1 .. MaxObjs : WouldWriteNext(i) = WouldWrite(i)]_vars

C5_Witness ==
    /\ ver = "hpp"
    /\ last.op = "reset"
    /\ out = <<"ESC", "[", "0", "m">>
    /\ _fg_color # face_none
    /\ _bg_color # back_none
    /\ _style # style_normal
    /\ \E i \in 1 .. MaxObjs : objs[i].kind # "none"

\* ---- C6 ---------------------------------------------------------------------
\* C6: bright of none fails with invalid_argument under the strict policy
\* (tesc.h) and returns none unchanged under the lenient policy (tesc.hpp).
C6_BrightNone ==
    (last.op \in {"bright_face", "bright_back"} /\ last.arg = <<0>>) =>
        IF ver = "h"
        THEN err = "invalid_argument" /\ ret = <<>>
        ELSE err = "none" /\ ret = <<0>>

\* ---- C7 ---------------------------------------------------------------------
\* C7: under the lenient policy bright is a fixed point after one application:
\* bright applied to a result of bright returns it unchanged.
C7_BrightFixedPoint ==
    (ver = "hpp" /\ last.op \in {"bright_face", "bright_back"} /\ last.chained) =>
        (err = "none" /\ ret = last.arg)

\* ---- C8 ---------------------------------------------------------------------
\* C8: in tesc.h bright returns c + 60 for a code below the bright range and
\* throws invalid_argument, returning nothing, exactly for a code in it (>= 90
\* foreground, >= 100 background); no other operation throws.
C8_StrictBright ==
    /\ ver = "h"
    /\ (last.op = "bright_face" =>
          IF last.arg[1] >= 90
          THEN err = "invalid_argument" /\ ret = <<>>
          ELSE err = "none" /\ ret = <<last.arg[1] + 60>>)
    /\ (last.op = "bright_back" =>
          IF last.arg[1] >= 100
          THEN err = "invalid_argument" /\ ret = <<>>
          ELSE err = "none" /\ ret = <<last.arg[1] + 60>>)
    /\ (last.op \notin {"bright_face", "bright_back"} => err = "none")

C8_Witness ==
    /\ ver = "h"
    /\ last.op = "bright_back"
    /\ last.chained
    /\ last.arg[1] = back_black + 60
    /\ err = "invalid_argument"

\* ---- C9 ---------------------------------------------------------------------
\* C9: b | f yields the colour pair f | b yields: the foreground is f, the
\* background is b, and a colour manipulator built from it emits f then b.
PairFace(r) == IF ver = "hpp" THEN r[1] ELSE r[1] \div 256
PairBack(r) == IF ver = "hpp" THEN r[2] ELSE r[1] % 256
PairBytes(r) == IF ver = "hpp" THEN color_insert(r[1], r[2]) ELSE h_color_insert(r[1])

C9_JoinCommutes ==
    (last.op \in {"face_or_back", "back_or_face"}) =>
        /\ PairFace(ret) = last.arg[1]
        /\ PairBack(ret) = last.arg[2]
        /\ Params(PairBytes(ret)) = SelectSeq(last.arg, NonZero)

C9_Witness ==
    /\ last.op = "back_or_face"
    /\ ver = "hpp"
    /\ last.arg[1] # face_none
    /\ last.arg[2] # back_none
    /\ ret = <<last.arg[1], last.arg[2]>>

\* ---- C10 --------------------------------------------------------------------
\* C10: in tesc.hpp the bytes a write emits carry the values of the cells at
\* that moment, whatever the written object was constructed with, and a write
\* changes no cell.
C10_WriteReadsCells ==
    [][(ver = "hpp" /\ last'.op = "write") =>
         /\ _fg_color' = _fg_color
         /\ _bg_color' = _bg_color
         /\ _style' = _style
         /\ objs' = objs
         /\ (objs[last'.who].kind = "color" =>
               Params(out') = SelectSeq(<<_fg_color, _bg_color>>, NonZero))
         /\ (objs[last'.who].kind = "font" =>
               Range(Params(out')) = StyleCodes(_style))]_vars

C10_Witness ==
    /\ ver = "hpp"
    /\ WroteColor
    /\ objs[last.who].ctor = "face"
    /\ objs[last.who].arg[1] # face_none
    /\ _fg_color # face_none
    /\ _fg_color # objs[last.who].arg[1]
    /\ Params(out)[1] = _fg_color

====
